---- MODULE Spec2Model ----
(***************************************************************************)
(* Model of app.py: the Streamlit script that asks the Gemini API for      *)
(* multiple-choice questions, normalises the JSON answer (generate_mcqs)   *)
(* and renders the stored batch.  One script run (the whole of app.py,     *)
(* top to bottom) is one action.  The API key is taken to be present: the  *)
(* script stops before any widget otherwise.  num_questions and the source *)
(* text only enter the prompt; what the client answers is an input of the  *)
(* run, independent of them.                                               *)
(***************************************************************************)
EXTENDS Integers, Sequences, FiniteSets, TLC

\* longest exhaustively enumerated response text, in lexical tokens
MaxRawLen == 3
\* longest source text typed into the text area, in characters
MaxTextLen == 1
\* most fields of the exhaustively enumerated top-level objects
MaxFields == 2
\* clicks on "Generate MCQs" explored from the initial page load
MaxClicks == 2

(***************************************************************************)
(* Python values.  Every value has the same four fields so that any two    *)
(* can be compared: t is type(v).__name__, s the payload of a scalar,      *)
(* items the elements of a list or the values of a dict (insertion         *)
(* order), keys the keys of a dict (insertion order).                      *)
(***************************************************************************)
PyVal(t, s, items, keys) == [t |-> t, s |-> s, items |-> items, keys |-> keys]
PyNone == PyVal("NoneType", "", <<>>, <<>>)
PyStr(s) == PyVal("str", s, <<>>, <<>>)
PyInt(s) == PyVal("int", s, <<>>, <<>>)
PyList(items) == PyVal("list", "", items, <<>>)
PyDict(keys, items) == PyVal("dict", "", items, keys)

\* isinstance(v, list), isinstance(v, dict)
IsList(v) == v.t = "list"
IsDict(v) == v.t = "dict"

\* `not v` for the values the script tests: None, "" and empty containers
Falsy(v) ==
  \/ v.t = "NoneType"
  \/ v.t = "str" /\ v.s = ""
  \/ v.t \in {"list", "dict"} /\ v.items = <<>>

(***************************************************************************)
(* Response text.  response.text is modelled as a sequence of lexical      *)
(* tokens: punctuation, whitespace, a string literal, a number literal,    *)
(* the literal null, or a bare word that is no JSON literal.               *)
(***************************************************************************)
Tok(c, s) == [c |-> c, s |-> s]
LBRACK == Tok("[", "")
RBRACK == Tok("]", "")
LBRACE == Tok("{", "")
RBRACE == Tok("}", "")
COMMA == Tok(",", "")
COLON == Tok(":", "")
WS == Tok("ws", "")
NULL == Tok("null", "")
Str(s) == Tok("str", s)
Num(s) == Tok("num", s)
Word(s) == Tok("word", s)

(***************************************************************************)
(* json.loads, as CPython's json.decoder / json.scanner do it.             *)
(* A parse step returns [ok, val, end]: ok = FALSE is JSONDecodeError,     *)
(* end is the index of the first token not consumed.                       *)
(***************************************************************************)
Fail == [ok |-> FALSE, val |-> PyNone, end |-> 0]
Done(v, e) == [ok |-> TRUE, val |-> v, end |-> e]

\* WHITESPACE.match(s, idx).end()
RECURSIVE SkipWs(_, _)
SkipWs(toks, i) ==
  IF i <= Len(toks) /\ toks[i] = WS THEN SkipWs(toks, i + 1) ELSE i

IndexOf(seq, x) == CHOOSE i \in 1..Len(seq) : seq[i] = x
InSeq(seq, x) == \E i \in 1..Len(seq) : seq[i] = x

\* dict(pairs) built pair by pair: a repeated key keeps its first position
\* and takes the later value
DictPut(d, k, v) ==
  IF InSeq(d.keys, k)
    THEN PyDict(d.keys, [d.items EXCEPT ![IndexOf(d.keys, k)] = v])
    ELSE PyDict(Append(d.keys, k), Append(d.items, v))

RECURSIVE ScanOnce(_, _)
RECURSIVE JSONArray(_, _, _)
RECURSIVE JSONObject(_, _, _)

\* JSONArray: i is the index where the next element is expected
JSONArray(toks, i, acc) ==
  LET r == ScanOnce(toks, i) IN
  IF ~r.ok THEN Fail
  ELSE LET j == SkipWs(toks, r.end)
           vals == Append(acc, r.val) IN
       IF j > Len(toks) THEN Fail
       ELSE IF toks[j] = RBRACK THEN Done(PyList(vals), j + 1)
       ELSE IF toks[j] = COMMA THEN JSONArray(toks, SkipWs(toks, j + 1), vals)
       ELSE Fail

\* JSONObject: i is the index where the next property name is expected
JSONObject(toks, i, acc) ==
  IF i > Len(toks) \/ toks[i].c # "str" THEN Fail
  ELSE LET c == SkipWs(toks, i + 1) IN
       IF c > Len(toks) \/ toks[c] # COLON THEN Fail
       ELSE LET r == ScanOnce(toks, SkipWs(toks, c + 1)) IN
            IF ~r.ok THEN Fail
            ELSE LET j == SkipWs(toks, r.end)
                     d == DictPut(acc, toks[i].s, r.val) IN
                 IF j > Len(toks) THEN Fail
                 ELSE IF toks[j] = RBRACE THEN Done(d, j + 1)
                 ELSE IF toks[j] = COMMA
                   THEN JSONObject(toks, SkipWs(toks, j + 1), d)
                 ELSE Fail

\* scan_once(string, idx)
ScanOnce(toks, i) ==
  IF i > Len(toks) THEN Fail
  ELSE LET t == toks[i] IN
    CASE t.c = "str" -> Done(PyStr(t.s), i + 1)
      [] t.c = "num" -> Done(PyInt(t.s), i + 1)
      [] t.c = "null" -> Done(PyNone, i + 1)
      [] t.c = "[" ->
           LET j == SkipWs(toks, i + 1) IN
           IF j <= Len(toks) /\ toks[j] = RBRACK
             THEN Done(PyList(<<>>), j + 1)
             ELSE JSONArray(toks, j, <<>>)
      [] t.c = "{" ->
           LET j == SkipWs(toks, i + 1) IN
           IF j <= Len(toks) /\ toks[j] = RBRACE
             THEN Done(PyDict(<<>>, <<>>), j + 1)
             ELSE JSONObject(toks, j, PyDict(<<>>, <<>>))
      [] OTHER -> Fail

\* json.loads(s): JSONDecoder.decode: one value between optional whitespace,
\* anything after it is "Extra data"
loads(toks) ==
  LET r == ScanOnce(toks, SkipWs(toks, 1)) IN
  IF r.ok /\ SkipWs(toks, r.end) = Len(toks) + 1 THEN r ELSE Fail

(***************************************************************************)
(* What the script shows: one record per Streamlit call.  kind is the call *)
(* (st.error -> "error", st.warning, st.info, st.write, st.radio,          *)
(* st.expander, st.success, st.divider), id names the message, i is the    *)
(* number of the record being rendered (0 outside the render loop), val    *)
(* the value shown.                                                        *)
(***************************************************************************)
El(kind, id, i, val) == [kind |-> kind, id |-> id, i |-> i, val |-> val]
Msg(kind, id) == El(kind, id, 0, PyNone)

\* what one call of generate_mcqs did: its return value, what it showed,
\* how many times it called model.generate_content and json.loads
Ret(v, out, calls, parses) ==
  [ret |-> v, out |-> out, calls |-> calls, parses |-> parses]

\* FirstListFrom as it would be if the loop had no break: the last
\* list-valued field wins
LastListFrom(d, i) ==
  LET ks == {k \in i..Len(d.items) : IsList(d.items[k])} IN
  IF ks = {} THEN 0 ELSE CHOOSE k \in ks : \A j \in ks : j <= k

\* for key, value in mcq_data.items(): if isinstance(value, list): ... break
\* the index of the first list-valued field from position i on, 0 if none
RECURSIVE FirstListFrom(_, _)
FirstListFrom(d, i) ==
  IF i > Len(d.items) THEN 0
  ELSE IF IsList(d.items[i]) THEN i
  ELSE FirstListFrom(d, i + 1)

\* ExtractList as it would be with per-item validation: only dict elements
\* of the list are kept
ExtractListDictsOnly(mcq_data) ==
  LET k == FirstListFrom(mcq_data, 1)
      found == IF IsDict(mcq_data) /\ k # 0 THEN mcq_data.items[k] ELSE mcq_data
  IN
  IF IsDict(mcq_data) /\ k = 0
    THEN Ret(PyNone, <<Msg("error", "not_array_format")>>, 0, 1)
  ELSE IF ~IsList(found)
    THEN Ret(PyNone, <<Msg("error", "not_array_format")>>, 0, 1)
  ELSE Ret(PyList(SelectSeq(found.items, IsDict)), <<>>, 0, 1)

\* ExtractList as it would be without the final isinstance check
ExtractListNoTypeCheck(mcq_data) ==
  LET k == FirstListFrom(mcq_data, 1)
      found == IF IsDict(mcq_data) /\ k # 0 THEN mcq_data.items[k] ELSE mcq_data
  IN
  IF IsDict(mcq_data) /\ k = 0
    THEN Ret(PyNone, <<Msg("error", "not_array_format")>>, 0, 1)
  ELSE Ret(found, <<>>, 0, 1)

\* the shape check on the parsed value: unwrap a dict, then require a list
ExtractList(mcq_data) ==
  LET k == FirstListFrom(mcq_data, 1)
      found == IF IsDict(mcq_data) /\ k # 0 THEN mcq_data.items[k] ELSE mcq_data
  IN
  IF IsDict(mcq_data) /\ k = 0
    THEN Ret(PyNone, <<Msg("error", "not_array_format")>>, 0, 1)
  ELSE IF ~IsList(found)
    THEN Ret(PyNone, <<Msg("error", "not_array_format")>>, 0, 1)
  ELSE Ret(found, <<>>, 0, 1)

\* Normalize as it would be if a whitespace-only text counted as empty
\* (`if not json_string.strip()`)
NormalizeBlankIsEmpty(json_string) ==
  IF \A i \in 1..Len(json_string) : json_string[i] = WS
    THEN Ret(PyNone, <<Msg("error", "empty_response")>>, 0, 0)
  ELSE LET r == loads(json_string) IN
    IF ~r.ok
      THEN Ret(PyNone, <<Msg("error", "json_decode")>>, 0, 1)
      ELSE ExtractList(r.val)

\* Normalize as it would be if the JSONDecodeError handler showed nothing
NormalizeSilent(json_string) ==
  IF json_string = <<>>
    THEN Ret(PyNone, <<Msg("error", "empty_response")>>, 0, 0)
  ELSE LET r == loads(json_string) IN
    IF ~r.ok
      THEN Ret(PyNone, <<>>, 0, 1)
      ELSE ExtractList(r.val)

\* from response.text to the returned list
Normalize(json_string) ==
  IF json_string = <<>>
    THEN Ret(PyNone, <<Msg("error", "empty_response")>>, 0, 0)
  ELSE LET r == loads(json_string) IN
    IF ~r.ok
      THEN Ret(PyNone, <<Msg("error", "json_decode")>>, 0, 1)
      ELSE ExtractList(r.val)

(***************************************************************************)
(* What the Gemini client does in one call of generate_mcqs:               *)
(*   "configure_error"  genai.configure raises                             *)
(*   "api_error"        model.generate_content (or response.text) raises   *)
(*   "text"             the call succeeds and response.text is `text`      *)
(***************************************************************************)
Api(kind, text) == [kind |-> kind, text |-> text]
ConfigureError == Api("configure_error", <<>>)
ApiError == Api("api_error", <<>>)
Text(toks) == Api("text", toks)

\* generate_mcqs as it would be with one retry of a failed API call
generate_mcqs_retry(api) ==
  IF api.kind = "configure_error"
    THEN Ret(PyNone, <<Msg("error", "configure_failed")>>, 0, 0)
  ELSE IF api.kind = "api_error"
    THEN Ret(PyNone, <<Msg("error", "unexpected_error")>>, 2, 0)
  ELSE LET n == Normalize(api.text) IN Ret(n.ret, n.out, 1, n.parses)

\* generate_mcqs(context, num_questions, api_key)
generate_mcqs(api) ==
  IF api.kind = "configure_error"
    THEN Ret(PyNone, <<Msg("error", "configure_failed")>>, 0, 0)
  ELSE IF api.kind = "api_error"
    THEN Ret(PyNone, <<Msg("error", "unexpected_error")>>, 1, 0)
  ELSE LET n == Normalize(api.text) IN Ret(n.ret, n.out, 1, n.parses)

(***************************************************************************)
(* The render loop of the right-hand column.                               *)
(***************************************************************************)
\* key in mcq, mcq[key] for a dict
HasKey(d, k) == InSeq(d.keys, k)
Get(d, k) == d.items[IndexOf(d.keys, k)]

\* len(v): defined for list, dict and str, TypeError for the rest
HasLen(v) == v.t \in {"list", "dict", "str"}
PyLen(v) == IF v.t = "str" THEN Len(v.s) ELSE Len(v.items)

\* the body of the for loop for record number i (1-based, as displayed)
RenderOne(i, mcq) ==
  IF ~IsDict(mcq)
    \* mcq['question'] on a non-dict: TypeError, caught by `except Exception`
    THEN <<El("error", "unknown_error", i, mcq)>>
  ELSE IF ~HasKey(mcq, "question")
    THEN <<El("error", "missing_key", i, PyStr("question"))>>
  ELSE
    LET header == <<El("write", "question", i, Get(mcq, "question"))>>
        options_list == IF HasKey(mcq, "options") THEN Get(mcq, "options")
                        ELSE PyList(<<>>)
    IN
    IF ~HasLen(options_list)
      THEN header \o <<El("error", "unknown_error", i, mcq)>>
    ELSE IF PyLen(options_list) # 4
      THEN header \o <<El("warning", "not_4_options", i, PyNone)>>
    ELSE
      LET shown == header \o <<El("radio", "options", i, options_list),
                               El("expander", "show_answer", i, PyNone)>>
      IN
      IF ~HasKey(mcq, "answer")
        THEN shown \o <<El("error", "missing_key", i, PyStr("answer"))>>
        ELSE shown \o <<El("success", "answer", i, Get(mcq, "answer")),
                        El("divider", "", i, PyNone)>>

\* RenderFrom as it would be if a faulty record ended the loop
RECURSIVE RenderUntilFault(_, _)
RenderUntilFault(batch, i) ==
  IF i > Len(batch.items) THEN <<>>
  ELSE LET one == RenderOne(i, batch.items[i]) IN
       IF one[Len(one)].kind \in {"error", "warning"} THEN one
       ELSE one \o RenderUntilFault(batch, i + 1)

\* for i, mcq in enumerate(st.session_state.mcq_list): records i..len
RECURSIVE RenderFrom(_, _)
RenderFrom(batch, i) ==
  IF i > Len(batch.items) THEN <<>>
  ELSE RenderOne(i, batch.items[i]) \o RenderFrom(batch, i + 1)

\* 'mcq_list' not in st.session_state is the stored value Absent
Absent == PyVal("absent", "", <<>>, <<>>)

\* with col2: the info line or the rendered batch
RenderColumn(stored) ==
  IF stored = Absent \/ Falsy(stored)
    THEN <<Msg("info", "click_generate")>>
    ELSE RenderFrom(stored, 1)

(***************************************************************************)
(* Source text: a sequence of characters; str.strip() removes whitespace   *)
(* at both ends.                                                           *)
(***************************************************************************)
IsSpace(c) == c \in {" ", "\n", "\t"}

RECURSIVE LStrip(_)
LStrip(t) == IF t # <<>> /\ IsSpace(Head(t)) THEN LStrip(Tail(t)) ELSE t

RECURSIVE RStrip(_)
RStrip(t) ==
  IF t # <<>> /\ IsSpace(t[Len(t)]) THEN RStrip(SubSeq(t, 1, Len(t) - 1)) ELSE t

\* strip as it would be if the handler tested `not context_text`
NoStrip(t) == t

strip(t) == RStrip(LStrip(t))

\* OnGenerate as it would be if only a successful result were stored
OnGenerateKeepOnFailure(stored, context_text, g) ==
  IF strip(context_text) = <<>>
    THEN [store |-> stored, out |-> <<Msg("warning", "paste_text_first")>>,
          calls |-> 0]
    ELSE [store |-> IF g.ret = PyNone THEN stored ELSE g.ret, out |-> g.out,
          calls |-> g.calls]

\* with col1: what the button handler does on a click: the value it stores
\* (the old one when it stores nothing), what it shows, and the API calls
\* made; g is what the call generate_mcqs(...) does if it is reached
OnGenerate(stored, context_text, g) ==
  IF strip(context_text) = <<>>
    THEN [store |-> stored, out |-> <<Msg("warning", "paste_text_first")>>,
          calls |-> 0]
    ELSE [store |-> g.ret, out |-> g.out, calls |-> g.calls]

(***************************************************************************)
(* Inputs.                                                                 *)
(***************************************************************************)
AllSeqs(S, n) == UNION {[1..k -> S] : k \in 0..n}

\* what the user can have typed into the text area
TextChars == {" ", "\n", "x"}
Texts == AllSeqs(TextChars, MaxTextLen)

\* every response text of at most MaxRawLen tokens over this alphabet
Alphabet ==
  {LBRACK, RBRACK, LBRACE, RBRACE, COMMA, COLON, WS, NULL,
   Num("1"), Str("a"), Word("not")}
ShortTexts == AllSeqs(Alphabet, MaxRawLen)

\* JSON text of arrays and objects, written without whitespace
RECURSIVE Joined(_)
Joined(parts) ==
  IF parts = <<>> THEN <<>>
  ELSE IF Len(parts) = 1 THEN parts[1]
  ELSE parts[1] \o <<COMMA>> \o Joined(Tail(parts))
Arr(parts) == <<LBRACK>> \o Joined(parts) \o <<RBRACK>>
Obj(props) == <<LBRACE>> \o Joined(props) \o <<RBRACE>>
Prop(k, v) == <<Str(k), COLON>> \o v
S(s) == <<Str(s)>>

Opts4 == Arr(<<S("A"), S("B"), S("C"), S("D")>>)
Opts3 == Arr(<<S("A"), S("B"), S("C")>>)
\* {"question":"Q1","options":["A","B","C","D"],"answer":"B"}
Good1 ==
  Obj(<<Prop("question", S("Q1")), Prop("options", Opts4), Prop("answer", S("B"))>>)
Good2 ==
  Obj(<<Prop("question", S("Q2")), Prop("options", Opts4), Prop("answer", S("D"))>>)
ThreeOptions ==
  Obj(<<Prop("question", S("Q3")), Prop("options", Opts3), Prop("answer", S("A"))>>)
NoOptions == Obj(<<Prop("question", S("Q4")), Prop("answer", S("A"))>>)
NullOptions ==
  Obj(<<Prop("question", S("Q5")), Prop("options", <<NULL>>), Prop("answer", S("A"))>>)
NoQuestion == Obj(<<Prop("options", Opts4), Prop("answer", S("B"))>>)
NoQuestion3 == Obj(<<Prop("options", Opts3), Prop("answer", S("B"))>>)
NoAnswer == Obj(<<Prop("question", S("Q6")), Prop("options", Opts4)>>)

\* response texts long enough to hold question records
SampleTexts ==
  { <<>>,
    <<WS>>,
    <<Word("not"), WS, Word("json")>>,
    <<Num("1")>>,
    Arr(<<>>),
    Obj(<<>>),
    Arr(<<Good1>>),
    Arr(<<ThreeOptions, Good1>>),
    Arr(<<NoQuestion, Good1, NoAnswer, Good2>>),
    Arr(<<<<Num("1")>>, NoOptions, NullOptions, Good2>>),
    Arr(<<NoQuestion3, ThreeOptions>>),
    Obj(<<Prop("questions", Arr(<<Good1>>))>>),
    Obj(<<Prop("n", <<Num("1")>>), Prop("a", Arr(<<ThreeOptions>>)),
          Prop("b", Arr(<<Good1>>))>>),
    Obj(<<Prop("n", Obj(<<Prop("deep", Arr(<<Good1>>))>>))>>),
    Obj(<<Prop("a", Arr(<<Good2>>)), Prop("b", Arr(<<Good1>>)),
          Prop("a", <<Num("1")>>)>>) }

\* every top-level object of at most MaxFields fields with these names and
\* values (names may repeat)
FieldKeys == {"a", "b"}
FieldVals ==
  {<<Num("1")>>, <<NULL>>, Arr(<<>>), Arr(<<<<Num("1")>>>>),
   Obj(<<Prop("a", Arr(<<>>))>>)}
Fields == {Prop(k, v) : k \in FieldKeys, v \in FieldVals}
ObjectTexts == {Obj(props) : props \in AllSeqs(Fields, MaxFields)}

\* what the Gemini client can do in one generation
Apis == {ConfigureError, ApiError} \cup {Text(t) : t \in SampleTexts}
AllApis == Apis \cup {Text(t) : t \in ShortTexts \cup ObjectTexts}
NoApi == Api("none", <<>>)

\* generate_mcqs on each of Apis, computed once
GenOf == [api \in Apis |-> generate_mcqs(api)]

(***************************************************************************)
(* State.                                                                  *)
(***************************************************************************)
VARIABLES
  mcq_list,      \* st.session_state.mcq_list (Absent: the key is not set)
  ui,            \* what the last script run showed, in order
  context_text,  \* the text area's value in the last run
  clicked,       \* whether the last run was started by "Generate MCQs"
  clicks,        \* runs started by the button
  apiCalls,      \* calls of model.generate_content made so far
  lastApi,       \* what the client did in the last call of generate_mcqs
  prev_list      \* st.session_state.mcq_list when the last run started

vars ==
  <<mcq_list, ui, context_text, clicked, clicks, apiCalls, lastApi, prev_list>>

\* the page as first loaded: the script has run once, nothing typed or clicked
Init ==
  /\ mcq_list = Absent
  /\ ui = RenderColumn(Absent)
  /\ context_text = <<>>
  /\ clicked = FALSE
  /\ clicks = 0
  /\ apiCalls = 0
  /\ lastApi = NoApi
  /\ prev_list = Absent

\* one run of the script: text is the text area's value, pressed the value
\* of st.button, api what the Gemini client does if it is used and g what
\* generate_mcqs does with it
Script(text, pressed, api, g) ==
  LET h == IF pressed THEN OnGenerate(mcq_list, text, g)
           ELSE [store |-> mcq_list, out |-> <<>>, calls |-> 0]
      called == pressed /\ strip(text) # <<>>
  IN
  /\ mcq_list' = h.store
  /\ ui' = h.out \o RenderColumn(h.store)
  /\ context_text' = text
  /\ clicked' = pressed
  /\ clicks' = IF pressed THEN clicks + 1 ELSE clicks
  /\ apiCalls' = apiCalls + h.calls
  /\ lastApi' = IF called THEN api ELSE lastApi
  /\ prev_list' = mcq_list

\* the user presses "Generate MCQs"
Generate(text, api) ==
  clicks < MaxClicks /\ Script(text, TRUE, api, GenOf[api])

\* the user edits a widget without pressing the button
Rerun(text) == Script(text, FALSE, NoApi, Ret(Absent, <<>>, 0, 0))

Next ==
  \/ \E text \in Texts, api \in Apis : Generate(text, api)
  \/ \E text \in Texts : Rerun(text)

Spec == Init /\ [][Next]_vars

\* the first generation on a fresh page, over every short response text
FirstGenerate(api) ==
  clicks = 0 /\ Script(<<"x">>, TRUE, api, generate_mcqs(api))

NextGen == \E api \in AllApis : FirstGenerate(api)

SpecGen == Init /\ [][NextGen]_vars

(***************************************************************************)
(* Vocabulary of the properties.                                           *)
(***************************************************************************)
\* the text has no character other than whitespace (the empty text too)
Blank(t) == \A i \in 1..Len(t) : t[i] \in {" ", "\n", "\t"}

\* the last run pressed the button with a usable text: generate_mcqs ran
Attempted == clicked /\ ~Blank(context_text)
GotText == Attempted /\ lastApi.kind = "text"
Parsed == loads(lastApi.text)

\* the ids of the errors shown outside the render loop
Errors(u) == {u[j].id : j \in {k \in 1..Len(u) : u[k].kind = "error" /\ u[k].i = 0}}

HasListField(v) == IsDict(v) /\ \E k \in 1..Len(v.items) : IsList(v.items[k])
LeastListField(v) ==
  CHOOSE k \in 1..Len(v.items) :
    IsList(v.items[k]) /\ \A j \in 1..(k - 1) : ~IsList(v.items[j])

\* the generation fails: the client raises, or the text is empty, is not
\* JSON, or is JSON of the wrong shape
Failed(api) ==
  \/ api.kind \in {"configure_error", "api_error"}
  \/ /\ api.kind = "text"
     /\ \/ api.text = <<>>
        \/ ~loads(api.text).ok
        \/ ~IsList(loads(api.text).val) /\ ~HasListField(loads(api.text).val)

\* what is shown for record number i, and the kinds of it
ElemsOf(u, i) == LET OfRecord(e) == e.i = i IN SelectSeq(u, OfRecord)
KindsOf(u, i) == [j \in 1..Len(ElemsOf(u, i)) |-> ElemsOf(u, i)[j].kind]
IsMessage(e) == e.kind \in {"error", "warning"}
Messages(u, i) == SelectSeq(ElemsOf(u, i), IsMessage)

\* a record with a question, an answer and a list of exactly 4 options
WellFormed(m) ==
  /\ IsDict(m)
  /\ HasKey(m, "question") /\ HasKey(m, "answer") /\ HasKey(m, "options")
  /\ IsList(Get(m, "options")) /\ Len(Get(m, "options").items) = 4

\* a record the loop cannot render in full
Faulty(m) ==
  \/ ~IsDict(m)
  \/ ~HasKey(m, "question") \/ ~HasKey(m, "answer") \/ ~HasKey(m, "options")
  \/ ~HasLen(Get(m, "options"))
  \/ PyLen(Get(m, "options")) # 4

\* a record whose options are a sequence of other than 4 elements, or absent
WrongOptionCount(m) ==
  /\ IsDict(m)
  /\ \/ ~HasKey(m, "options")
     \/ IsList(Get(m, "options")) /\ Len(Get(m, "options").items) # 4

FullRender(u, i, m) ==
  /\ KindsOf(u, i) = <<"write", "radio", "expander", "success", "divider">>
  /\ ElemsOf(u, i)[1].val = Get(m, "question")
  /\ ElemsOf(u, i)[2].val = Get(m, "options")
  /\ ElemsOf(u, i)[4].val = Get(m, "answer")

Batch == IsList(mcq_list) /\ mcq_list.items # <<>>

\* the values the scenarios of the specification name
RecordQ1 ==
  PyDict(<<"question", "options", "answer">>,
         <<PyStr("Q1"), PyList(<<PyStr("A"), PyStr("B"), PyStr("C"), PyStr("D")>>),
           PyStr("B")>>)
RecordQ3 ==
  PyDict(<<"question", "options", "answer">>,
         <<PyStr("Q3"), PyList(<<PyStr("A"), PyStr("B"), PyStr("C")>>), PyStr("A")>>)

(***************************************************************************)
(* The normaliser: checked under SpecGen, one generation per response text *)
(***************************************************************************)
\* C1: a response text whose JSON value is a list is returned as that very
\* list: same elements, same order, nothing dropped, whatever they are, and
\* no error is shown.
C1_ListReturnedAsIs ==
  (GotText /\ Parsed.ok /\ IsList(Parsed.val)) =>
    /\ mcq_list = Parsed.val
    /\ Len(mcq_list.items) = Len(Parsed.val.items)
    /\ Errors(ui) = {}

\* the scenario [{"question":"Q1","options":["A","B","C","D"],"answer":"B"}]
C1_Witness ==
  /\ GotText
  /\ lastApi.text = Arr(<<Good1>>)
  /\ mcq_list = PyList(<<RecordQ1>>)

\* C2: for a JSON object with a list-valued top-level field, the result is
\* the value of the first such field in the dict's order: earlier non-list
\* fields are passed over, later lists and nested lists are not chosen.
C2_FirstListField ==
  (GotText /\ Parsed.ok /\ HasListField(Parsed.val)) =>
    /\ mcq_list = Parsed.val.items[LeastListField(Parsed.val)]
    /\ Errors(ui) = {}

\* {"n":1,"a":[<Q3>],"b":[<Q1>]} gives the list under "a"
C2_Witness ==
  /\ GotText
  /\ Parsed.ok /\ Parsed.val.keys = <<"n", "a", "b">>
  /\ IsList(Parsed.val.items[3])
  /\ mcq_list = PyList(<<RecordQ3>>)

\* C3: JSON that is neither a list nor an object with a top-level list field
\* gives None and the "not in the expected array format" error; the result
\* of a generation is never a value other than None or a list.
C3_UnexpectedShape ==
  /\ (GotText /\ Parsed.ok /\ ~IsList(Parsed.val) /\ ~HasListField(Parsed.val)) =>
       /\ mcq_list = PyNone
       /\ Errors(ui) = {"not_array_format"}
  /\ Attempted => (mcq_list = PyNone \/ IsList(mcq_list))

\* {"n":{"deep":[...]}}: the only list is nested, so the shape is rejected
C3_Witness ==
  /\ GotText
  /\ Parsed.ok /\ Parsed.val.keys = <<"n">> /\ HasListField(Parsed.val.items[1])
  /\ mcq_list = PyNone
  /\ Errors(ui) = {"not_array_format"}

\* C4: the empty text fails as an empty response without json.loads being
\* called; every non-empty text that is not JSON ("not json", whitespace
\* only) fails as a JSON decoding error; either way the result is None.
C4_EmptyOrMalformed ==
  GotText =>
    /\ lastApi.text = <<>> =>
         /\ mcq_list = PyNone
         /\ Errors(ui) = {"empty_response"}
         /\ generate_mcqs(lastApi).parses = 0
    /\ (lastApi.text # <<>> /\ ~Parsed.ok) =>
         /\ mcq_list = PyNone
         /\ Errors(ui) = {"json_decode"}
    /\ (lastApi.text # <<>> /\ \A i \in 1..Len(lastApi.text) : lastApi.text[i] = WS) =>
         Errors(ui) = {"json_decode"}
    /\ lastApi.text = <<Word("not"), WS, Word("json")>> =>
         Errors(ui) = {"json_decode"}

\* a whitespace-only response
C4_Witness ==
  /\ GotText
  /\ lastApi.text = <<WS, WS>>
  /\ mcq_list = PyNone
  /\ Errors(ui) = {"json_decode"}

(***************************************************************************)
(* The page: checked under Spec                                            *)
(***************************************************************************)
\* C5: a record of the stored batch whose options are not exactly 4 (or are
\* absent) is skipped: a warning for it is shown and nothing of it is
\* rendered, no question text, no options, no answer; a record with 4
\* options, a question and an answer is rendered in full.
C5_SkippedRecordShowsNothing ==
  Batch =>
    \A i \in 1..Len(mcq_list.items) :
      LET m == mcq_list.items[i] IN
      /\ WrongOptionCount(m) =>
           /\ \E j \in 1..Len(ElemsOf(ui, i)) : ElemsOf(ui, i)[j].kind = "warning"
           /\ \A j \in 1..Len(ElemsOf(ui, i)) :
                ElemsOf(ui, i)[j].kind \notin {"write", "radio", "success"}
      /\ WellFormed(m) => FullRender(ui, i, m)

\* C6: every record of a non-empty stored batch is processed once, in batch
\* order, whatever the records before it were: a faulty record gives exactly
\* one message, for that record, and a well-formed record is rendered in
\* full wherever it stands.
C6_EveryRecordProcessed ==
  Batch =>
    LET recs == LET InLoop(e) == e.i > 0 IN SelectSeq(ui, InLoop) IN
    /\ \A j \in 1..(Len(recs) - 1) : recs[j].i <= recs[j + 1].i
    /\ \A j \in 1..Len(recs) : recs[j].i <= Len(mcq_list.items)
    /\ \A i \in 1..Len(mcq_list.items) :
         LET m == mcq_list.items[i] IN
         /\ ElemsOf(ui, i) # <<>>
         /\ WellFormed(m) => FullRender(ui, i, m)
         /\ Faulty(m) =>
              /\ Len(Messages(ui, i)) = 1
              /\ ElemsOf(ui, i)[Len(ElemsOf(ui, i))].kind \in {"error", "warning"}
              /\ \A j \in 1..Len(ElemsOf(ui, i)) : ElemsOf(ui, i)[j].kind # "success"

\* [no question, Q1, no answer, Q2]: both faults reported, both questions shown
C6_Witness ==
  /\ Batch
  /\ Len(mcq_list.items) = 4
  /\ ~HasKey(mcq_list.items[1], "question")
  /\ ~HasKey(mcq_list.items[3], "answer")
  /\ WellFormed(mcq_list.items[2]) /\ WellFormed(mcq_list.items[4])
  /\ Len(Messages(ui, 1)) = 1 /\ Len(Messages(ui, 3)) = 1
  /\ FullRender(ui, 4, mcq_list.items[4])

C8_BatchDiscardedOnFailure ==
  /\ lastApi = NoApi => mcq_list = Absent
  /\ lastApi # NoApi =>
       /\ Failed(lastApi) =>
            /\ mcq_list = PyNone
            /\ \A j \in 1..Len(ui) : ui[j].i = 0
       /\ ~Failed(lastApi) =>
            mcq_list = IF IsList(loads(lastApi.text).val)
                         THEN loads(lastApi.text).val
                         ELSE loads(lastApi.text).val.items[
                                LeastListField(loads(lastApi.text).val)]

\* a failed generation right after a batch was on the page
C8_Witness ==
  /\ Attempted
  /\ IsList(prev_list) /\ prev_list.items # <<>>
  /\ Failed(lastApi)
  /\ mcq_list = PyNone

C10_BlankTextKeepsBatch ==
  [][/\ (clicked' /\ Blank(context_text')) =>
          /\ apiCalls' = apiCalls
          /\ mcq_list' = mcq_list
          /\ ui'[1] = Msg("warning", "paste_text_first")
          /\ Batch =>
               \A i \in 1..Len(mcq_list.items) :
                 WellFormed(mcq_list.items[i]) =>
                   FullRender(ui', i, mcq_list.items[i])
     /\ mcq_list' # mcq_list => (clicked' /\ ~Blank(context_text'))]_vars

\* a whitespace-only press while a batch is on the page
C10_Witness ==
  /\ clicked
  /\ context_text # <<>> /\ Blank(context_text)
  /\ mcq_list = PyList(<<RecordQ1>>)
  /\ prev_list = mcq_list
  /\ ui[1] = Msg("warning", "paste_text_first")
  /\ FullRender(ui, 1, RecordQ1)
====
